---- MODULE Spec2Model ----
(***************************************************************************)
(* A model of the rolling-buffer charting engine of src/display.py (class  *)
(* Display): time bucketing (add / _outdated / _process_last_bin), the     *)
(* bounded history (data), the axis scaler (_calculate_y_axis_limits) and  *)
(* the candle part of the renderer (_update_display).                      *)
(*                                                                         *)
(* Numbers are integers.  The source computes with Python floats; every    *)
(* quotient is kept here as an exact fraction, so a comparison such as     *)
(* ts - last_ts > time_range / graph_w is decided by cross-multiplying and *)
(* int(), // and math.ceil are computed on exact fractions.                *)
(***************************************************************************)
EXTENDS Integers, Sequences, FiniteSets, TLC

(***************************************************************************)
(* Configuration set by Display.__init__.                                  *)
(***************************************************************************)
full_h == 128
full_w == 296
\* int(128*5/6)
graph_h == (full_h * 5) \div 6
\* The source sets graph_w = 296.  The history capacity is graph_w, so the
\* model takes a small width for the capacity clamp to be reached.
graph_w == 2
y_axis_scale_step == 200
x_axis_n_labels == 7
x_axis_n_ticks == 14
y_axis_n_ticks == 5
x_axis_step == 30
\* _SCALE['m']
SCALE_m == 60
total_x_range == x_axis_n_labels * x_axis_step * SCALE_m
time_range == total_x_range
\* variant of plot_extra_v_range with a slip: no padding below
plot_no_extra_v_range == <<0, 0>>

plot_extra_v_range == <<1, 0>>
data_max_size == graph_w

(***************************************************************************)
(* Bounds of the model.                                                    *)
(***************************************************************************)
\* bins closed in one behaviour
MaxCloses == 3
\* samples held by the open bin before an add that does not close it
MaxBin == 2
\* largest padding argument tried on _calculate_y_axis_limits
MaxPad == 2
\* add calls recorded by the scenario specification
MaxTrace == 3
\* direct calls of _update_display on one history
MaxRedraws == 2
\* elements of a list given to add
MaxList == 2
\* passes of the sensor loop of the ha_sensor node
MaxCycles == 2
\* lines printed by the logger
MaxLog == 3
\* largest max_wait given to wlan.connect
MaxWait == 2
\* largest n_avg given to fn_avg; results fn can be asked for
MaxAvg == 4
MaxStream == 4
\* send calls on one Comms object
MaxSends == 3
\* largest num_response_words of a direct _send_command call
MaxWords == 2
MaxBlockWait == 5

\* sample values fed to add
Values == {500, 700, 900}
\* candle bounds of the histories the axis scaler and renderer are tried on
RenderVals == {-50, 595, 600, 1100}

VARIABLES
    data,             \* self.data: history, data[1] oldest
    last_bin,         \* self.last_bin: samples of the open bin
    last_ts,          \* self.last_ts: start of the open bin
    last_co2,         \* self.last_co2
    mode,             \* self.mode
    seconds_per_bin,  \* self.seconds_per_bin as a fraction <<num, den>>
    raised,           \* exception the last call ended with, "none" if it returned
    y_axis,           \* <<y_axis_min_val, y_axis_max_val>> of the last redraw
    vlines,           \* epd.vline calls of the candle loop of the last redraw
    flushed,          \* flush calls on the display surface, in order
    ylim,             \* last direct call of _calculate_y_axis_limits: arguments, result
    hist_log,         \* history: every entry ever appended to data, in order
    win_bin,          \* history: samples of the open bin whose ts lies in its window
    crossed,          \* history: bucket boundaries crossed by the add calls so far
    prev_ts,          \* history: ts of the previous add call
    calls,            \* history: the add calls of the scenario, <<value, ts>> each
    co2_txt,          \* the CO2 value update_text wrote in the last redraw
    cmds,             \* the calls on the display surface of the last redraw, in order
    list_call,        \* Display.add on a list: elements left, ts argument, history
    now,              \* time.time()
    node,             \* main/ha_sensor/main.py: position, messages published
    logger,           \* log.py: _level, the last call, the lines printed
    wifi,             \* src/wlan.py: WLAN, the interface, the connect call
    avg,              \* utils.fn_avg: the last call
    mqtt,             \* comms.py: the Comms object and its client
    scd,              \* scd30.py: the last SCD30 call
    blocking          \* scd30.py: the get_data_blocking call and its position

\* the Display and the history kept of its calls
dispVars == <<data, last_bin, last_ts, last_co2, mode, seconds_per_bin, raised,
              y_axis, vlines, flushed, ylim, hist_log, win_bin, crossed, prev_ts,
              calls, co2_txt, cmds>>

\* the other modules
sideVars == <<list_call, now, node, logger, wifi, avg, mqtt, scd, blocking>>

vars == <<data, last_bin, last_ts, last_co2, mode, seconds_per_bin, raised,
          y_axis, vlines, flushed, ylim, hist_log, win_bin, crossed, prev_ts,
          calls, co2_txt, cmds, list_call, now, node, logger, wifi, avg, mqtt,
          scd, blocking>>

(***************************************************************************)
(* History entries: None (a gap) or the tuple (min, max, ts).              *)
(***************************************************************************)
Gap == [gap |-> TRUE, min |-> 0, max |-> 0, ts |-> 0]
Candle(mn, mx, ts) == [gap |-> FALSE, min |-> mn, max |-> mx, ts |-> ts]

Range(s) == {s[i] : i \in 1..Len(s)}
Min(S) == CHOOSE x \in S : \A y \in S : x <= y
Max(S) == CHOOSE x \in S : \A y \in S : x >= y
Last(s) == s[Len(s)]

\* Python's a // b and math.ceil(a / b) for b > 0, int(a / b) for b > 0.
FloorDiv(a, b) == a \div b
CeilDiv(a, b) == -((-a) \div b)
TruncDiv(a, b) == IF a >= 0 THEN a \div b ELSE -((-a) \div b)

\* Python's s[-i] on a non-empty list: s[-0] is s[0], the first element.
NegIndex(s, i) == IF i = 0 THEN s[1] ELSE s[Len(s) - i + 1]

Min2(a, b) == IF a <= b THEN a ELSE b
Max2(a, b) == IF a >= b THEN a ELSE b

(***************************************************************************)
(* Display._outdated: ts - self.last_ts > self.seconds_per_bin.            *)
(***************************************************************************)
\* variant of outdated with a slip: >= for >
outdated_ge(ts) == (ts - last_ts) * seconds_per_bin[2] >= seconds_per_bin[1]

outdated(ts) == (ts - last_ts) * seconds_per_bin[2] > seconds_per_bin[1]

(***************************************************************************)
(* Display._process_last_bin.  closed_entries is what lines 112-118 append *)
(* to data for the bin being closed (the mode check of line 115 is in      *)
(* add_scalar), clamp is the truncation of lines 125-126.                  *)
(***************************************************************************)
\* variants of closed_entries with a slip: the first and last sample instead of
\* the extremes; a gap pushed after the candle; the newest sample left out
closed_entries_first_last(bin, bin_ts) ==
    IF bin = <<>> THEN <<Gap>> ELSE <<Candle(bin[1], bin[Len(bin)], bin_ts)>>

closed_entries_backfill(bin, bin_ts) ==
    IF bin = <<>>
    THEN <<Gap>>
    ELSE <<Candle(Min(Range(bin)), Max(Range(bin)), bin_ts), Gap>>

closed_entries_drop_newest(bin, bin_ts) ==
    IF Len(bin) <= 1
    THEN <<Gap>>
    ELSE LET b == SubSeq(bin, 1, Len(bin) - 1)
         IN  <<Candle(Min(Range(b)), Max(Range(b)), bin_ts)>>

closed_entries(bin, bin_ts) ==
    IF bin = <<>>
    THEN <<Gap>>
    ELSE <<Candle(Min(Range(bin)), Max(Range(bin)), bin_ts)>>

\* variant of clamp with a slip: the oldest entries kept (data[:data_max_size])
clamp_oldest(d) ==
    IF Len(d) > data_max_size THEN SubSeq(d, 1, data_max_size) ELSE d

clamp(d) ==
    IF Len(d) > data_max_size
    THEN SubSeq(d, Len(d) - data_max_size + 1, Len(d))
    ELSE d

(***************************************************************************)
(* Display._calculate_y_axis_limits on history d (the mode check of line   *)
(* 131 is made by the callers below).  scan_limits is the loop of lines    *)
(* 136-142 from index i on, acc = <<gmin, gmax, return_defaults>>.         *)
(***************************************************************************)
RECURSIVE scan_limits(_, _, _)
scan_limits(d, i, acc) ==
    IF i >= Min2(graph_w, Len(d))
    THEN acc
    ELSE LET e == NegIndex(d, i)
         IN  IF e.gap
             THEN scan_limits(d, i + 1, acc)
             ELSE scan_limits(d, i + 1,
                      <<Min2(acc[1], e.min), Max2(acc[2], e.max), FALSE>>)

\* variant of round_limits with a slip: the low padding added, not subtracted
round_limits_pad_up(gmin, gmax, extra_low, extra_high) ==
    LET step == y_axis_scale_step
    IN  <<step * (FloorDiv(gmin, step) + extra_low),
          step * (CeilDiv(gmax, step) + extra_high)>>

round_limits(gmin, gmax, extra_low, extra_high) ==
    LET step == y_axis_scale_step
    IN  <<step * (FloorDiv(gmin, step) - extra_low),
          step * (CeilDiv(gmax, step) + extra_high)>>

\* variants of calculate_y_axis_limits with a slip: return_defaults ignored for
\* a non-empty history; the scan started at index 1
calculate_y_axis_limits_no_default(d, extra_low, extra_high) ==
    LET acc == scan_limits(d, 0, <<999999, -999999, TRUE>>)
    IN  IF d = <<>>
        THEN <<400, 1000>>
        ELSE round_limits(acc[1], acc[2], extra_low, extra_high)

calculate_y_axis_limits_from_one(d, extra_low, extra_high) ==
    LET acc == scan_limits(d, 1, <<999999, -999999, TRUE>>)
    IN  IF acc[3]
        THEN <<400, 1000>>
        ELSE round_limits(acc[1], acc[2], extra_low, extra_high)

calculate_y_axis_limits(d, extra_low, extra_high) ==
    LET acc == scan_limits(d, 0, <<999999, -999999, TRUE>>)
    IN  IF acc[3]
        THEN <<400, 1000>>
        ELSE round_limits(acc[1], acc[2], extra_low, extra_high)

(***************************************************************************)
(* The candle loop of Display._update_display, lines 207-226.              *)
(***************************************************************************)
\* int(self.full_h - ((v - y_axis_min_val) / y_axis_range) * self.graph_h)
pixel_row(v, lim) ==
    LET y_axis_range == lim[2] - lim[1]
    IN  TruncDiv(full_h * y_axis_range - (v - lim[1]) * graph_h, y_axis_range)

\* variant of bar_height with a slip: no minimum height
bar_height_raw(y_top, y_bot) == y_bot - y_top

bar_height(y_top, y_bot) == Max2(2, y_bot - y_top)

\* leftmost column of the graph area
g_left == full_w - graph_w

\* the epd.vline(x, y_top, h, _BLACK) call of loop index i
candle_line(e, i, lim) ==
    LET y_top == pixel_row(e.max, lim)
        y_bot == pixel_row(e.min, lim)
    IN  [x |-> full_w - i, y |-> y_top, h |-> bar_height(y_top, y_bot)]

RECURSIVE candle_lines(_, _, _)
candle_lines(d, i, lim) ==
    IF i >= Len(d) \/ i > graph_w
    THEN <<>>
    ELSE LET e == NegIndex(d, i)
         IN  IF e.gap
             THEN candle_lines(d, i + 1, lim)
             ELSE <<candle_line(e, i, lim)>> \o candle_lines(d, i + 1, lim)

\* some entry the candle loop visits is a candle
draws_candle(d) ==
    \E i \in 0..(Len(d) - 1) : i <= graph_w /\ ~NegIndex(d, i).gap

(***************************************************************************)
(* The calls _update_display makes on the display surface, each named by   *)
(* the part of the picture it draws.                                       *)
(***************************************************************************)
\* n calls of one kind
Rep(kind, n) == [i \in 1..n |-> kind]

\* epd.fill (line 196) and the four calls of update_text with an empty second
\* column (lines 164-166, 173)
calls_before_candles == <<"clear">> \o Rep("text", 4)

\* the axes: rect and text per x label (lines 235-243), the x ticks (lines
\* 246-248), the two y labels (lines 261-262), the y ticks (lines 270-272)
axis_calls ==
    Rep("x_label", 2 * (x_axis_n_labels - 1)) \o Rep("x_tick", x_axis_n_ticks - 1)
        \o Rep("y_label", 2) \o Rep("y_tick", y_axis_n_ticks)

\* variant of draw_calls with a slip: the flush before the axes
draw_calls_flush_early(n_candles) ==
    calls_before_candles \o Rep("candle", n_candles) \o <<"flush">> \o axis_calls

\* a render pass that draws n_candles candles; the flush is line 275
draw_calls(n_candles) ==
    calls_before_candles \o Rep("candle", n_candles) \o axis_calls \o <<"flush">>

(***************************************************************************)
(* Display._update_display on history d: the axis range, the vline calls   *)
(* of the candle loop, the CO2 text of update_text (co2: self.last_co2 at   *)
(* the time of the call), the flush, and the exception it ends with.  The  *)
(* other text and the axis drawing calls (lines 161-175, 229-272) change   *)
(* no attribute of the Display and are not recorded.                       *)
(***************************************************************************)
redraw(d, co2) ==
    IF mode # "candle"
    THEN /\ raised' = "ValueError"
         /\ UNCHANGED <<y_axis, vlines, flushed, co2_txt, cmds>>
    ELSE LET lim == calculate_y_axis_limits(d, plot_extra_v_range[1],
                                            plot_extra_v_range[2])
             y_axis_range == lim[2] - lim[1]
         IN  /\ y_axis' = lim
             /\ IF y_axis_range < 0
                THEN /\ raised' = "AssertionError"
                     /\ UNCHANGED <<vlines, flushed, co2_txt, cmds>>
                ELSE IF y_axis_range = 0 /\ draws_candle(d)
                THEN /\ raised' = "ZeroDivisionError"
                     /\ vlines' = <<>>
                     /\ co2_txt' = co2
                     /\ cmds' = calls_before_candles
                     /\ UNCHANGED flushed
                ELSE /\ raised' = "none"
                     /\ vlines' = candle_lines(d, 0, lim)
                     /\ co2_txt' = co2
                     /\ cmds' = draw_calls(Len(candle_lines(d, 0, lim)))
                     /\ flushed' = Append(flushed, "Base")

(***************************************************************************)
(* History bookkeeping of an add call (not program state).                 *)
(***************************************************************************)
\* ts lies in the window of the open bin: last_ts <= ts <= last_ts + seconds_per_bin
in_window(ts) == ts >= last_ts /\ ~outdated(ts)

\* bucket boundaries last_ts + k * seconds_per_bin, k >= 1, strictly before ts
boundaries(ts) ==
    IF ts <= last_ts
    THEN 0
    ELSE CeilDiv((ts - last_ts) * seconds_per_bin[2], seconds_per_bin[1]) - 1

(***************************************************************************)
(* Display.add(value, ts) with a scalar value and an explicit ts (lines    *)
(* 88-97, with _process_last_bin and _update_display inlined).  A list     *)
(* value with an explicit ts is this call once per element (lines 84-87).  *)
(***************************************************************************)
\* self.last_co2 when the _update_display call of line 97 runs: line 95 has
\* assigned the value by then
last_co2_before_add(value) == last_co2

last_co2_at_redraw(value) == value

add_scalar(value, ts) ==
    /\ UNCHANGED <<mode, seconds_per_bin, ylim>>
    /\ IF outdated(ts)
       THEN LET bin == Append(last_bin, value)
            IN  IF bin # <<>> /\ mode # "candle"
                THEN /\ raised' = "ValueError"
                     /\ last_bin' = bin
                     /\ UNCHANGED <<data, last_ts, last_co2, y_axis, vlines,
                                    flushed, hist_log, win_bin, co2_txt, cmds>>
                ELSE LET pushed == closed_entries(bin, last_ts)
                         d == clamp(data \o pushed)
                     IN  /\ data' = d
                         /\ hist_log' = hist_log \o pushed
                         /\ last_bin' = <<value>>
                         /\ win_bin' = <<value>>
                         /\ last_ts' = ts
                         /\ last_co2' = value
                         /\ redraw(d, last_co2_at_redraw(value))
       ELSE /\ last_bin' = Append(last_bin, value)
            /\ win_bin' = IF in_window(ts) THEN Append(win_bin, value) ELSE win_bin
            /\ last_co2' = value
            /\ raised' = "none"
            /\ UNCHANGED <<data, last_ts, y_axis, vlines, flushed, hist_log,
                           co2_txt, cmds>>

(***************************************************************************)
(* Direct calls of _calculate_y_axis_limits and of _update_display.        *)
(***************************************************************************)
calc_limits(extra_low, extra_high) ==
    /\ IF mode # "candle"
       THEN raised' = "ValueError" /\ UNCHANGED ylim
       ELSE /\ raised' = "none"
            /\ ylim' = [called |-> TRUE, extra_low |-> extra_low,
                        extra_high |-> extra_high,
                        ret |-> calculate_y_axis_limits(data, extra_low, extra_high)]
    /\ UNCHANGED <<data, last_bin, last_ts, last_co2, mode, seconds_per_bin,
                   y_axis, vlines, flushed, hist_log, win_bin, crossed,
                   prev_ts, calls, co2_txt, cmds>>
    /\ UNCHANGED sideVars

\* a render pass that removes the newest entry from the history
update_display_consuming ==
    /\ redraw(data, last_co2)
    /\ data' = IF data = <<>> THEN data ELSE SubSeq(data, 1, Len(data) - 1)
    /\ UNCHANGED <<last_bin, last_ts, last_co2, mode, seconds_per_bin,
                   ylim, hist_log, win_bin, crossed, prev_ts, calls>>
    /\ UNCHANGED sideVars

update_display ==
    /\ redraw(data, last_co2)
    /\ UNCHANGED <<data, last_bin, last_ts, last_co2, mode, seconds_per_bin,
                   ylim, hist_log, win_bin, crossed, prev_ts, calls>>
    /\ UNCHANGED sideVars

(***************************************************************************)
(* Inputs.                                                                 *)
(***************************************************************************)
\* ts = None, the default of Display.add
None == -1

\* co2_txt before the first update_text call
NoText == -1

\* whole seconds in seconds_per_bin
BinSeconds == seconds_per_bin[1] \div seconds_per_bin[2]

\* timestamps tried by an add call: before the bin start, at it, at the end of
\* its window, one and two windows later
TsChoices ==
    {t \in {last_ts + dt : dt \in {-1, 0, BinSeconds, BinSeconds + 1,
                                   2 * BinSeconds + 1}} : t >= 0}

\* histories the axis scaler and the renderer are tried on
Entries ==
    {Gap} \cup {Candle(p[1], p[2], 0) :
                    p \in {q \in RenderVals \X RenderVals : q[1] <= q[2]}}
Histories == UNION {[1..n -> Entries] : n \in 0..graph_w}

(***************************************************************************)
(* Display.add(value, ts) with a list value (lines 84-87): one add call    *)
(* per element, each given the ts argument of the list call.  An element   *)
(* call whose ts is None reads time.time() itself (lines 88-89).           *)
(***************************************************************************)
\* no list call is running
NoListCall == [vals |-> <<>>, ts |-> None, stamps |-> {}, closes |-> 0]

InitList == list_call = NoListCall /\ now = 0

\* values time.time() may return: the clock never runs backwards
ClockReads == {now + dt : dt \in {0, 1, BinSeconds + 1}}

\* the list call starts: nothing is done before the loop of line 85
add_list(vals, ts) ==
    /\ list_call' = [vals |-> vals, ts |-> ts, stamps |-> {}, closes |-> 0]
    /\ UNCHANGED <<dispVars, now>>

\* one pass of the loop of lines 85-86: self.add(val, ts=ts), which stamps
\* the element t; an exception ends the list call
add_element(t) ==
    /\ add_scalar(Head(list_call.vals), t)
    /\ list_call' =
           [list_call EXCEPT
               !.vals = IF raised' = "none" THEN Tail(list_call.vals) ELSE <<>>,
               !.stamps = list_call.stamps \cup {t},
               !.closes = list_call.closes +
                          (IF Len(hist_log') > Len(hist_log) THEN 1 ELSE 0)]

(***************************************************************************)
(* main/ha_sensor/main.py: the statements of the try block (lines 15-44,   *)
(* comms.send of line 42 by its client calls, comms.py lines 51-66) and of *)
(* the handler (lines 47-52).  node.pc names the statement to run next.    *)
(***************************************************************************)
topic == "home/bathroom"

\* statements of the try block that may raise an Exception: wlan.connect
\* (RuntimeError), the constructor of Comms, the sensor set-up and reads
\* (AssertionError, AttributeError, OSError) and the MQTT client calls of
\* comms.send (OSError, MQTTException).  The LED blinks and time.sleep do not.
Raising == {"wlan_connect", "comms_init", "get_aht20", "read", "send_connect",
            "send_publish", "send_status", "send_disconnect"}

\* the statement after statement pc of the try block
next_pc(pc) ==
    CASE pc = "blink_start" -> "wlan_connect"
      [] pc = "wlan_connect" -> "blink_connected"
      [] pc = "blink_connected" -> "comms_init"
      [] pc = "comms_init" -> "get_aht20"
      [] pc = "get_aht20" -> "read"
      [] pc = "read" -> "blink_read"
      [] pc = "blink_read" -> "send_connect"
      [] pc = "send_connect" -> "send_publish"
      [] pc = "send_publish" -> "send_status"
      [] pc = "send_status" -> "send_disconnect"
      [] pc = "send_disconnect" -> "sleep"
      [] pc = "sleep" -> "read"

TryPcs == {"blink_start", "wlan_connect", "blink_connected", "comms_init",
           "get_aht20", "read", "blink_read", "send_connect", "send_publish",
           "send_status", "send_disconnect", "sleep"}

\* the statements of the while loop (lines 25-44)
LoopPcs == {"read", "blink_read", "send_connect", "send_publish", "send_status",
            "send_disconnect", "sleep"}

InitNode ==
    node = [pc |-> "blink_start",
            failed |-> FALSE,        \* an Exception reached the handler
            comms |-> "module",      \* what the name comms is bound to
            connected |-> FALSE,     \* the MQTT client holds a connection
            results |-> {},          \* keys of the results dict
            msgs |-> <<>>,           \* client.publish calls, in order
            cycles |-> 0,            \* passes of the while loop completed
            no_disconnect |-> FALSE, \* 'Failed to disconnect' was logged
            led |-> FALSE]           \* blink_pattern passes of blink_error, mod 2

\* keys of the results dict (lines 31-39) for the readings temp and humi
results_keys(temp, humi) ==
    {"timestamp", "internal_temp"}
        \cup (IF temp > 0 THEN {"temperature"} ELSE {})
        \cup (IF humi > 0 THEN {"humidity"} ELSE {})

\* statement node.pc of the try block completes
try_step(temp, humi) ==
    LET pc == node.pc
    IN  node' =
          [node EXCEPT
             !.pc = next_pc(pc),
             !.comms = IF pc = "comms_init" THEN "Comms" ELSE @,
             !.results = IF pc = "read" THEN results_keys(temp, humi) ELSE @,
             !.connected = IF pc = "send_connect" THEN TRUE
                           ELSE IF pc = "send_disconnect" THEN FALSE ELSE @,
             !.msgs = IF pc = "send_publish"
                      THEN Append(@, [topic |-> topic, payload |-> node.results])
                      ELSE IF pc = "send_status"
                      THEN Append(@, [topic |-> topic \o "/status",
                                      payload |-> {"online"}])
                      ELSE @,
             !.cycles = IF pc = "sleep" THEN @ + 1 ELSE @]

\* statement node.pc of the try block raises an Exception: line 46
try_raise ==
    node' = [node EXCEPT !.pc = "handler_disconnect", !.failed = TRUE]

\* the AttributeError of line 48 left uncaught ends the program
handler_disconnect_uncaught ==
    node' = [node EXCEPT !.pc = "terminated"]

\* lines 47-50: neither the module comms nor the class Comms has a disconnect
\* attribute, the AttributeError is caught by the bare except
handler_disconnect ==
    node' = [node EXCEPT !.pc = "handler_log", !.no_disconnect = TRUE]

\* line 51
handler_log == node' = [node EXCEPT !.pc = "blink_error"]

\* utils.blink_error: one pass of its while True loop
blink_error == node' = [node EXCEPT !.led = ~@]

(***************************************************************************)
(* log.py: _level and the five log functions; set_level.                   *)
(***************************************************************************)
\* _LOG_LEVELS
LOG_LEVELS == [ALL |-> 40, DEBUG |-> 30, INFO |-> 20, WARN |-> 10, ERROR |-> 0,
               OFF |-> -1]

LevelNames == DOMAIN LOG_LEVELS

\* the level check of each log function
threshold == [error |-> 0, warn |-> 10, info |-> 20, debug |-> 30, trace |-> 40]

LogFunctions == DOMAIN threshold

InitLog ==
    logger = [level |-> LOG_LEVELS["ALL"],   \* the module's _level
              requested |-> LOG_LEVELS["ALL"], \* level of the last valid set_level
              set |-> FALSE,                 \* set_level returned for a valid level
              fn |-> "none",                 \* the last call
              emitted |-> FALSE,             \* it passed msg to _destination
              raised |-> "none",
              out |-> <<>>]                  \* lines printed, by their origin

\* arguments of set_level: an int, a str, or a value of another type
IntLevel(n) == [type |-> "int", int |-> n, str |-> ""]
StrLevel(name) == [type |-> "str", int |-> 0, str |-> name]
OtherLevel == [type |-> "float", int |-> 0, str |-> ""]

valid_level(a) == a.type = "int" \/ (a.type = "str" /\ a.str \in LevelNames)

level_of(a) == IF a.type = "int" THEN a.int ELSE LOG_LEVELS[a.str]

\* the module's _level after set_level(a): the function has no global
\* statement, its assignments (lines 13, 17) bind a local name
level_after_set(old, a) == old

set_level(a) ==
    logger' =
      [logger EXCEPT
         !.fn = "set_level",
         !.emitted = FALSE,
         !.level = IF valid_level(a) THEN level_after_set(@, a) ELSE @,
         !.requested = IF valid_level(a) THEN level_of(a) ELSE @,
         !.set = IF valid_level(a) THEN TRUE ELSE @,
         !.raised = IF a.type = "str" /\ a.str \notin LevelNames
                    THEN "KeyError" ELSE "none",
         !.out = IF valid_level(a) THEN @ ELSE Append(@, "set_level")]

\* error, warn, info, debug, trace
log_call(fn) ==
    LET emit == logger.level >= threshold[fn]
    IN  logger' = [logger EXCEPT !.fn = fn,
                                 !.emitted = emit,
                                 !.raised = "none",
                                 !.out = IF emit THEN Append(@, fn) ELSE @]

(***************************************************************************)
(* src/wlan.py: connect(max_wait), statement by statement.  Every          *)
(* wlan.status() call reads the interface anew.                            *)
(***************************************************************************)
\* network.STAT_GOT_IP
STAT_GOT_IP == 3

\* values of wlan.status(): failures -3..-1, idle 0, joining 1, no ip 2, up 3
Statuses == -3..STAT_GOT_IP

InitWlan ==
    wifi = [WLAN |-> FALSE,      \* the global WLAN is set
            active |-> FALSE,    \* the interface is active
            status |-> 0,        \* the interface status
            pc |-> "idle",
            max_wait |-> 0,
            i |-> 0,             \* passes of the polling loop started
            result |-> "none"]   \* how the last connect call ended

\* connect is called
connect_call(max_wait) ==
    wifi' = [wifi EXCEPT !.pc = "entry", !.max_wait = max_wait, !.i = 0,
                         !.result = "none"]

\* lines 12-18
connect_entry ==
    wifi' = IF wifi.WLAN /\ wifi.active
            THEN [wifi EXCEPT !.pc = "idle", !.result = "returned"]
            ELSE [wifi EXCEPT !.pc = "poll", !.active = TRUE]

\* lines 20-24: one pass of the loop, s1 and s2 the two status reads of line 21
connect_poll(s1, s2) ==
    wifi' = IF wifi.i >= wifi.max_wait
            THEN [wifi EXCEPT !.pc = "check"]
            ELSE IF s1 < 0
            THEN [wifi EXCEPT !.pc = "check", !.i = @ + 1, !.status = s1]
            ELSE IF s2 >= STAT_GOT_IP
            THEN [wifi EXCEPT !.pc = "check", !.i = @ + 1, !.status = s2]
            ELSE [wifi EXCEPT !.i = @ + 1, !.status = s2]

\* lines 26-31, s the status read of line 26
connect_check(s) ==
    wifi' = IF s # STAT_GOT_IP
            THEN [wifi EXCEPT !.pc = "idle", !.status = s,
                              !.result = "RuntimeError"]
            ELSE [wifi EXCEPT !.pc = "idle", !.status = s, !.WLAN = TRUE,
                              !.result = "returned"]

\* the access point or the link changes the interface status
link_change(s) == wifi' = [wifi EXCEPT !.status = s]

(***************************************************************************)
(* utils.fn_avg(fn, n_avg, delay_ms) for a function returning numbers:     *)
(* stream holds the values fn returns, call after call.                    *)
(***************************************************************************)
RECURSIVE Sum(_)
Sum(s) == IF s = <<>> THEN 0 ELSE Head(s) + Sum(Tail(s))

\* n_avg as the loop and the division see it: line 119 assigns 3 to it
loop_count(n_avg) == 3

\* number of fn calls and the value returned, as the fraction <<sum, n>>
fn_avg(stream, n_avg) ==
    LET n == loop_count(n_avg)
        acc == Sum(SubSeq(stream, 1, n))
    IN  [calls |-> n, ret |-> <<acc, n>>]

InitAvg ==
    avg = [called |-> FALSE, n_avg |-> 0, stream |-> <<>>, calls |-> 0,
           ret |-> <<0, 1>>]

(***************************************************************************)
(* comms.py: Comms.__init__ and Comms.send, one step per call on the MQTT  *)
(* client.  mqtt.ops lists the client calls of the current (or last) send, *)
(* a failed call by its name and exception.                                *)
(***************************************************************************)
InitComms ==
    mqtt = [made |-> FALSE,         \* a Comms object exists
            keepalive |-> FALSE,    \* self.keepalive
            connected |-> FALSE,    \* a client.connect() is not yet followed
                                    \* by a client.disconnect()
            pc |-> "idle",          \* the next statement of send
            msg |-> "str",          \* type of the msg argument
            ops |-> <<>>,
            before |-> FALSE,       \* connected, when the send was called
            sends |-> 0,            \* send calls so far
            result |-> "none"]      \* how the last send ended

\* raise out of send
send_raises(op) ==
    [mqtt EXCEPT !.pc = "idle", !.result = "raised", !.ops = Append(@, op)]

\* lines 22-32: with keepalive the constructor connects; if that raises no
\* object is made
comms_init(keepalive, ok) ==
    mqtt' = IF keepalive /\ ~ok
            THEN mqtt
            ELSE [mqtt EXCEPT !.made = TRUE, !.keepalive = keepalive,
                              !.connected = keepalive]

\* send is called
comms_send(msg) ==
    mqtt' = [mqtt EXCEPT !.pc = IF mqtt.keepalive THEN "ping" ELSE "connect",
                         !.msg = msg, !.ops = <<>>, !.before = mqtt.connected,
                         !.sends = @ + 1,
                         !.result = "none"]

\* variant of client_ping with a slip: the OSError swallowed, no reconnect
client_ping_no_reconnect(ok) ==
    mqtt' = IF ok
            THEN [mqtt EXCEPT !.pc = "check", !.ops = Append(@, "ping")]
            ELSE [mqtt EXCEPT !.pc = "check", !.ops = Append(@, "ping_OSError")]

\* lines 43-48: client.ping(), an OSError leads to the reconnect
client_ping(ok) ==
    mqtt' = IF ok
            THEN [mqtt EXCEPT !.pc = "check", !.ops = Append(@, "ping")]
            ELSE [mqtt EXCEPT !.pc = "connect", !.ops = Append(@, "ping_OSError")]

\* lines 48 and 51: client.connect()
client_connect(ok) ==
    mqtt' = IF ok
            THEN [mqtt EXCEPT !.pc = "check", !.connected = TRUE,
                              !.ops = Append(@, "connect")]
            ELSE send_raises("connect_OSError")

\* line 53: the assertion on the type of msg
check_msg ==
    mqtt' = IF mqtt.msg \in {"str", "dict"}
            THEN [mqtt EXCEPT !.pc = "publish"]
            ELSE send_raises("AssertionError")

\* line 60: client.publish(topic, msg)
client_publish(ok) ==
    mqtt' = IF ok
            THEN [mqtt EXCEPT !.pc = "status", !.ops = Append(@, "publish")]
            ELSE send_raises("publish_OSError")

\* lines 62-66: client.publish(topic + '/status', 'online'); without keepalive
\* the disconnect follows
client_publish_status(ok) ==
    mqtt' = IF ~ok
            THEN send_raises("publish_status_OSError")
            ELSE IF mqtt.keepalive
            THEN [mqtt EXCEPT !.pc = "idle", !.result = "returned",
                              !.ops = Append(@, "publish_status")]
            ELSE [mqtt EXCEPT !.pc = "disconnect",
                              !.ops = Append(@, "publish_status")]

\* line 66: client.disconnect()
client_disconnect(ok) ==
    mqtt' = IF ok
            THEN [mqtt EXCEPT !.pc = "idle", !.result = "returned",
                              !.connected = FALSE,
                              !.ops = Append(@, "disconnect")]
            ELSE send_raises("disconnect_OSError")

(***************************************************************************)
(* scd30.py: SCD30._crc8, the response loop of SCD30._send_command and     *)
(* SCD30.get_data.  A response is a sequence of [msb, lsb, crc] bytes.     *)
(***************************************************************************)
\* _SCD30_POLYNOMIAL = 0x31
SCD30_POLYNOMIAL == 49

\* num_response_words of the _send_command call of get_data
READ_MEASUREMENT_WORDS == 6
SLEEP_MS == 200

\* a ^ b on n bits
RECURSIVE Xor(_, _, _)
Xor(a, b, n) ==
    IF n = 0
    THEN 0
    ELSE (((a % 2) + (b % 2)) % 2) + 2 * Xor(a \div 2, b \div 2, n - 1)

\* the inner loop of _crc8 (lines 173-178) on the byte-wide remainder rem,
\* k passes left
crc8_shift[rem \in 0..255, k \in 0..8] ==
    IF k = 0
    THEN rem
    ELSE IF rem >= 128
    THEN crc8_shift[Xor(rem * 2, SCD30_POLYNOMIAL, 9) % 256, k - 1]
    ELSE crc8_shift[(rem * 2) % 256, k - 1]

\* _crc8(word): over the two bytes of the word, big-endian, from 0xFF
crc8(word) ==
    LET msb == word \div 256
        lsb == word % 256
        rem1 == crc8_shift[Xor(255, msb, 8), 8]
    IN  crc8_shift[Xor(rem1, lsb, 8), 8]

\* int.from_bytes(word_with_crc[:2], 'big')
word_of(t) == t.msb * 256 + t.lsb

\* variant of response_words with a slip: a word failing its CRC is skipped
RECURSIVE response_words_skip(_, _, _)
response_words_skip(raw, i, response) ==
    IF i > Len(raw)
    THEN response
    ELSE IF raw[i].crc # crc8(word_of(raw[i]))
    THEN response_words_skip(raw, i + 1, response)
    ELSE response_words_skip(raw, i + 1, Append(response, word_of(raw[i])))

\* lines 219-232: the words of the response raw from word i on, response the
\* words verified so far; the first CRC mismatch returns []
RECURSIVE response_words(_, _, _)
response_words(raw, i, response) ==
    IF i > Len(raw)
    THEN response
    ELSE IF raw[i].crc # crc8(word_of(raw[i]))
    THEN <<>>
    ELSE response_words(raw, i + 1, Append(response, word_of(raw[i])))

\* _send_command with num_response_words = Len(raw) > 0, the bus answering raw
send_command(raw) == response_words(raw, 1, <<>>)

\* self._default_readings; a reading is kept as the three 32-bit patterns
\* interpret_as_float decodes, each by its high and low word
default_readings ==
    [defaults |-> TRUE, bits |-> <<<<0, 0>>, <<0, 0>>, <<0, 0>>>>]

\* get_data, the bus answering raw
get_data(raw) ==
    LET words == send_command(raw)
    IN  IF Len(words) # READ_MEASUREMENT_WORDS
        THEN default_readings
        ELSE [defaults |-> FALSE,
              bits |-> <<<<words[1], words[2]>>, <<words[3], words[4]>>,
                         <<words[5], words[6]>>>>]

InitScd ==
    scd = [op |-> "none", raw |-> <<>>, ret |-> <<>>, data |-> default_readings,
           raised |-> "none"]

\* the _send_command call returns
scd_send_command(raw) ==
    scd' = [op |-> "_send_command", raw |-> raw, ret |-> send_command(raw),
            data |-> default_readings, raised |-> "none"]

\* the get_data call returns
scd_get_data(raw) ==
    scd' = [op |-> "get_data", raw |-> raw, ret |-> send_command(raw),
            data |-> get_data(raw), raised |-> "none"]
\* bool(_first(rval)) of is_data_ready, the bus answering the one word of raw:
\* a word failing its CRC gives [], which reads as not ready
is_data_ready(raw) ==
    LET rval == send_command(raw)
    IN  rval # <<>> /\ rval[1] # 0

\* variant of timed_out with a slip: max_wait = 0 is not exempted
timed_out_any(max_wait, diff) == max_wait * 100 < diff

\* line 149: max_wait > 0 and max_wait < ticks_diff(...) / 1000.0, max_wait in
\* tenths of a second and diff in milliseconds
timed_out(max_wait, diff) == max_wait > 0 /\ max_wait * 100 < diff

\* the milliseconds since start_ticks are kept up to the first value past
\* every max_wait of the model and its last sleep; beyond it line 149 gives
\* the same answer
diff_cap == 100 * MaxBlockWait + 2 * SLEEP_MS

InitBlocking ==
    blocking = [pc |-> "idle", max_wait |-> 0, diff |-> 0, ready |-> FALSE,
                by |-> "none", raw |-> <<>>, ret |-> default_readings]

\* line 145: get_data_blocking(max_wait) is entered, start_ticks is taken
blocking_call(max_wait) ==
    /\ blocking.pc = "idle"
    /\ blocking' = [blocking EXCEPT !.pc = "poll", !.max_wait = max_wait]

\* line 146: the loop condition, the bus answering raw; line 152 is next when
\* the data is ready
blocking_poll(raw) ==
    /\ blocking.pc = "poll"
    /\ blocking' = [blocking EXCEPT !.ready = is_data_ready(raw),
                                    !.pc = IF is_data_ready(raw) THEN "read"
                                           ELSE "sleep"]

\* line 148: time.sleep_ms(200), ms milliseconds pass before line 149 reads
\* the clock
blocking_sleep(ms) ==
    /\ blocking.pc = "sleep"
    /\ blocking' = [blocking EXCEPT
                       !.diff = IF blocking.diff + ms > diff_cap THEN diff_cap
                                ELSE blocking.diff + ms,
                       !.pc = "check"]

\* lines 149-150: the defaults are returned once max_wait has passed
blocking_check ==
    /\ blocking.pc = "check"
    /\ blocking' = IF timed_out(blocking.max_wait, blocking.diff)
                   THEN [blocking EXCEPT !.pc = "done", !.by = "timeout",
                                         !.ret = default_readings]
                   ELSE [blocking EXCEPT !.pc = "poll"]

\* line 152: return self.get_data(), the bus answering raw
blocking_read(raw) ==
    /\ blocking.pc = "read"
    /\ blocking' = [blocking EXCEPT !.pc = "done", !.by = "get_data",
                                    !.raw = raw, !.ret = get_data(raw)]

InitSide ==
    /\ InitList /\ InitNode /\ InitLog /\ InitWlan /\ InitAvg
    /\ InitComms /\ InitScd /\ InitBlocking

(***************************************************************************)
(* Specifications.                                                         *)
(***************************************************************************)
\* the state Display.__init__ leaves, on history d with bin width spb, the
\* mode attribute m; the other modules as imported
InitWithMode(d, spb, m) ==
    /\ data = d
    /\ last_bin = <<>>
    /\ last_ts = 0
    /\ last_co2 = 0
    /\ mode = m
    /\ seconds_per_bin = spb
    /\ raised = "none"
    /\ y_axis = <<0, 0>>
    /\ vlines = <<>>
    /\ flushed = <<"Base">>
    /\ ylim = [called |-> FALSE, extra_low |-> 0, extra_high |-> 0, ret |-> <<0, 0>>]
    /\ hist_log = <<>>
    /\ win_bin = <<>>
    /\ crossed = 0
    /\ prev_ts = 0
    /\ calls = <<>>
    /\ co2_txt = NoText
    /\ cmds = <<>>
    /\ InitSide

InitWith(d, spb) == InitWithMode(d, spb, "candle")

Init == InitWith(<<>>, <<time_range, graph_w>>)

Add ==
    \E value \in Values, ts \in TsChoices :
        /\ IF outdated(ts) THEN Len(hist_log) < MaxCloses ELSE Len(last_bin) < MaxBin
        /\ add_scalar(value, ts)
        /\ UNCHANGED <<crossed, prev_ts, calls>>
        /\ UNCHANGED sideVars

Next == Add

Spec == Init /\ [][Next]_vars

(***************************************************************************)
(* SpecMono: add calls whose timestamps never decrease, with the bucket    *)
(* boundaries they cross counted.                                          *)
(***************************************************************************)
AddMono ==
    \E value \in Values, ts \in TsChoices :
        /\ ts >= prev_ts
        /\ IF outdated(ts) THEN Len(hist_log) < MaxCloses ELSE Len(last_bin) < MaxBin
        /\ add_scalar(value, ts)
        /\ prev_ts' = ts
        /\ crossed' = crossed + boundaries(ts)
        /\ UNCHANGED calls
        /\ UNCHANGED sideVars

NextMono == AddMono

SpecMono == Init /\ [][NextMono]_vars

(***************************************************************************)
(* SpecScenario: a fresh Display whose seconds_per_bin attribute is 30,    *)
(* the add calls recorded.                                                 *)
(***************************************************************************)
InitScenario == InitWith(<<>>, <<30, 1>>)

AddTraced ==
    \E value \in Values, ts \in TsChoices :
        /\ Len(calls) < MaxTrace
        /\ add_scalar(value, ts)
        /\ calls' = Append(calls, <<value, ts>>)
        /\ UNCHANGED <<crossed, prev_ts>>
        /\ UNCHANGED sideVars

NextScenario == AddTraced

SpecScenario == InitScenario /\ [][NextScenario]_vars

(***************************************************************************)
(* SpecRender: the axis scaler and the render pass on a history drawn from *)
(* Histories (gaps and candles, at most data_max_size entries).            *)
(***************************************************************************)
InitRender == \E d \in Histories : InitWith(d, <<time_range, graph_w>>)

CalcLimits == \E extra_low, extra_high \in 0..MaxPad : calc_limits(extra_low, extra_high)

UpdateDisplay == Len(flushed) <= MaxRedraws /\ update_display

NextRender == CalcLimits \/ UpdateDisplay

SpecRender == InitRender /\ [][NextRender]_vars

(***************************************************************************)
(* SpecList: add calls with a list of values, with and without ts.         *)
(***************************************************************************)
AddList ==
    \E vals \in UNION {[1..n -> Values] : n \in 1..MaxList},
       ts \in TsChoices \cup {None} :
        /\ list_call.vals = <<>>
        /\ Len(hist_log) + Len(vals) <= MaxCloses
        /\ Len(last_bin) < MaxBin
        /\ add_list(vals, ts)
        /\ UNCHANGED <<node, logger, wifi, avg, mqtt, scd, blocking>>

AddElement ==
    /\ list_call.vals # <<>>
    /\ IF list_call.ts # None
       THEN add_element(list_call.ts) /\ UNCHANGED now
       ELSE \E t \in ClockReads : now' = t /\ add_element(t)
    /\ UNCHANGED <<crossed, prev_ts, calls, node, logger, wifi, avg, mqtt, scd, blocking>>

NextList == AddList \/ AddElement

SpecList == Init /\ [][NextList]_vars

(***************************************************************************)
(* SpecMode: SpecScenario's add calls on a Display whose mode attribute    *)
(* was set after construction (the constructor takes no mode and sets      *)
(* 'candle').                                                              *)
(***************************************************************************)
Modes == {"candle", "line"}

InitMode == \E m \in Modes : InitWithMode(<<>>, <<30, 1>>, m)

SpecMode == InitMode /\ [][NextScenario]_vars

(***************************************************************************)
(* SpecNode: main/ha_sensor/main.py.  The interpreter runs the next        *)
(* statement as long as there is one, hence the weak fairness.             *)
(***************************************************************************)
\* readings of the AHT20: a temperature and a humidity, 0 when not measured
Readings == {0, 21} \X {0, 40}

TryStep ==
    /\ node.pc \in TryPcs
    /\ node.pc = "sleep" => node.cycles < MaxCycles
    /\ \E r \in Readings : try_step(r[1], r[2])
    /\ UNCHANGED <<dispVars, list_call, now, logger, wifi, avg, mqtt, scd, blocking>>

TryRaise ==
    /\ node.pc \in Raising
    /\ try_raise
    /\ UNCHANGED <<dispVars, list_call, now, logger, wifi, avg, mqtt, scd, blocking>>

HandlerDisconnect ==
    /\ node.pc = "handler_disconnect"
    /\ handler_disconnect
    /\ UNCHANGED <<dispVars, list_call, now, logger, wifi, avg, mqtt, scd, blocking>>

HandlerLog ==
    /\ node.pc = "handler_log"
    /\ handler_log
    /\ UNCHANGED <<dispVars, list_call, now, logger, wifi, avg, mqtt, scd, blocking>>

BlinkError ==
    /\ node.pc = "blink_error"
    /\ blink_error
    /\ UNCHANGED <<dispVars, list_call, now, logger, wifi, avg, mqtt, scd, blocking>>

NextNode == TryStep \/ TryRaise \/ HandlerDisconnect \/ HandlerLog \/ BlinkError

SpecNode == Init /\ [][NextNode]_vars /\ WF_vars(NextNode)

(***************************************************************************)
(* SpecLog: calls of set_level and of the log functions.                   *)
(***************************************************************************)
LevelArgs ==
    {IntLevel(n) : n \in {-1, 0, 10, 20, 30, 40}}
        \cup {StrLevel(name) : name \in LevelNames \cup {"VERBOSE"}}
        \cup {OtherLevel}

SetLevel ==
    /\ \E a \in LevelArgs :
          /\ ~valid_level(a) => Len(logger.out) < MaxLog
          /\ set_level(a)
    /\ UNCHANGED <<dispVars, list_call, now, node, wifi, avg, mqtt, scd, blocking>>

LogCall ==
    /\ Len(logger.out) < MaxLog
    /\ \E fn \in LogFunctions : log_call(fn)
    /\ UNCHANGED <<dispVars, list_call, now, node, wifi, avg, mqtt, scd, blocking>>

NextLog == SetLevel \/ LogCall

SpecLog == Init /\ [][NextLog]_vars

(***************************************************************************)
(* SpecWlan: connect calls, the interface status changing between and      *)
(* during them.                                                            *)
(***************************************************************************)
ConnectCall ==
    /\ wifi.pc = "idle"
    /\ \E max_wait \in 0..MaxWait : connect_call(max_wait)
    /\ UNCHANGED <<dispVars, list_call, now, node, logger, avg, mqtt, scd, blocking>>

ConnectEntry ==
    /\ wifi.pc = "entry"
    /\ connect_entry
    /\ UNCHANGED <<dispVars, list_call, now, node, logger, avg, mqtt, scd, blocking>>

ConnectPoll ==
    /\ wifi.pc = "poll"
    /\ \E s1, s2 \in Statuses : connect_poll(s1, s2)
    /\ UNCHANGED <<dispVars, list_call, now, node, logger, avg, mqtt, scd, blocking>>

ConnectCheck ==
    /\ wifi.pc = "check"
    /\ \E s \in Statuses : connect_check(s)
    /\ UNCHANGED <<dispVars, list_call, now, node, logger, avg, mqtt, scd, blocking>>

LinkChange ==
    /\ wifi.pc = "idle"
    /\ wifi.active
    /\ \E s \in Statuses : s # wifi.status /\ link_change(s)
    /\ UNCHANGED <<dispVars, list_call, now, node, logger, avg, mqtt, scd, blocking>>

NextWlan == ConnectCall \/ ConnectEntry \/ ConnectPoll \/ ConnectCheck \/ LinkChange

SpecWlan == Init /\ [][NextWlan]_vars

(***************************************************************************)
(* SpecAvg: fn_avg calls.                                                  *)
(***************************************************************************)
\* values fn returns
FnValues == {0, 3, 6}

FnAvg ==
    /\ \E n_avg \in 1..MaxAvg, stream \in [1..MaxStream -> FnValues] :
          LET r == fn_avg(stream, n_avg)
          IN  avg' = [called |-> TRUE, n_avg |-> n_avg, stream |-> stream,
                      calls |-> r.calls, ret |-> r.ret]
    /\ UNCHANGED <<dispVars, list_call, now, node, logger, wifi, mqtt, scd, blocking>>

NextAvg == FnAvg

SpecAvg == Init /\ [][NextAvg]_vars

(***************************************************************************)
(* SpecComms: a Comms object is made, with or without keepalive, and send  *)
(* is called on it; any call on the client may fail.                       *)
(***************************************************************************)
MsgTypes == {"str", "dict", "other"}

CommsInit ==
    /\ ~mqtt.made
    /\ \E keepalive, ok \in BOOLEAN : comms_init(keepalive, ok)
    /\ UNCHANGED <<dispVars, list_call, now, node, logger, wifi, avg, scd, blocking>>

CommsSend ==
    /\ mqtt.made /\ mqtt.pc = "idle"
    /\ mqtt.sends < MaxSends
    /\ \E msg \in MsgTypes : comms_send(msg)
    /\ UNCHANGED <<dispVars, list_call, now, node, logger, wifi, avg, scd, blocking>>

ClientPing ==
    /\ mqtt.pc = "ping"
    /\ \E ok \in BOOLEAN : client_ping(ok)
    /\ UNCHANGED <<dispVars, list_call, now, node, logger, wifi, avg, scd, blocking>>

ClientConnect ==
    /\ mqtt.pc = "connect"
    /\ \E ok \in BOOLEAN : client_connect(ok)
    /\ UNCHANGED <<dispVars, list_call, now, node, logger, wifi, avg, scd, blocking>>

CheckMsg ==
    /\ mqtt.pc = "check"
    /\ check_msg
    /\ UNCHANGED <<dispVars, list_call, now, node, logger, wifi, avg, scd, blocking>>

ClientPublish ==
    /\ mqtt.pc = "publish"
    /\ \E ok \in BOOLEAN : client_publish(ok)
    /\ UNCHANGED <<dispVars, list_call, now, node, logger, wifi, avg, scd, blocking>>

ClientPublishStatus ==
    /\ mqtt.pc = "status"
    /\ \E ok \in BOOLEAN : client_publish_status(ok)
    /\ UNCHANGED <<dispVars, list_call, now, node, logger, wifi, avg, scd, blocking>>

ClientDisconnect ==
    /\ mqtt.pc = "disconnect"
    /\ \E ok \in BOOLEAN : client_disconnect(ok)
    /\ UNCHANGED <<dispVars, list_call, now, node, logger, wifi, avg, scd, blocking>>

NextComms ==
    \/ CommsInit \/ CommsSend \/ ClientPing \/ ClientConnect \/ CheckMsg
    \/ ClientPublish \/ ClientPublishStatus \/ ClientDisconnect

SpecComms == Init /\ [][NextComms]_vars

(***************************************************************************)
(* SpecScd: one _send_command or get_data call on a response whose CRC     *)
(* bytes are right or wrong.                                               *)
(***************************************************************************)
\* response words as the bus delivers them: 0xBEEF and 0x0000, with the CRC of
\* the one or of the other (0x92 and 0x81)
ResponseWords ==
    {[msb |-> w[1], lsb |-> w[2], crc |-> c] :
        w \in {<<190, 239>>, <<0, 0>>}, c \in {146, 129}}

SendCommand ==
    /\ scd.op = "none"
    /\ \E n \in 1..MaxWords : \E raw \in [1..n -> ResponseWords] :
          scd_send_command(raw)
    /\ UNCHANGED <<dispVars, list_call, now, node, logger, wifi, avg, mqtt, blocking>>

GetData ==
    /\ scd.op = "none"
    /\ \E raw \in [1..READ_MEASUREMENT_WORDS -> ResponseWords] : scd_get_data(raw)
    /\ UNCHANGED <<dispVars, list_call, now, node, logger, wifi, avg, mqtt, blocking>>

NextScd == SendCommand \/ GetData

SpecScd == Init /\ [][NextScd]_vars

(***************************************************************************)
(* SpecBlocking: one get_data_blocking call; the sensor answers each poll  *)
(* ready or not, with a right or a wrong CRC, and each sleep lasts 200 ms  *)
(* or longer.  The interpreter runs the loop on: weak fairness of the      *)
(* steps.                                                                  *)
(***************************************************************************)
\* max_wait in tenths of a second
BlockWaits == 0..MaxBlockWait

\* the answer to GET_DATA_READY: the word 0 or 1 with the CRC of the one or of
\* the other (0x81 and 0xB0)
ReadyWords ==
    {[msb |-> 0, lsb |-> w, crc |-> c] : w \in {0, 1}, c \in {129, 176}}

\* the answer to READ_MEASUREMENT: six words 0xBEEF, all CRCs right or one
\* of them wrong
MeasurementResponses ==
    LET good == [i \in 1..READ_MEASUREMENT_WORDS |->
                    [msb |-> 190, lsb |-> 239, crc |-> 146]]
    IN  {good} \cup {[good EXCEPT ![k].crc = 129] :
                        k \in 1..READ_MEASUREMENT_WORDS}

\* the time a sleep_ms(200) and the poll around it take
SleepTimes == {SLEEP_MS, SLEEP_MS + 100}

BlockingCall ==
    /\ \E max_wait \in BlockWaits : blocking_call(max_wait)
    /\ UNCHANGED <<dispVars, list_call, now, node, logger, wifi, avg, mqtt, scd>>

BlockingPoll ==
    /\ \E w \in ReadyWords : blocking_poll(<<w>>)
    /\ UNCHANGED <<dispVars, list_call, now, node, logger, wifi, avg, mqtt, scd>>

BlockingSleep ==
    /\ \E ms \in SleepTimes : blocking_sleep(ms)
    /\ UNCHANGED <<dispVars, list_call, now, node, logger, wifi, avg, mqtt, scd>>

BlockingCheck ==
    /\ blocking_check
    /\ UNCHANGED <<dispVars, list_call, now, node, logger, wifi, avg, mqtt, scd>>

BlockingRead ==
    /\ \E raw \in MeasurementResponses : blocking_read(raw)
    /\ UNCHANGED <<dispVars, list_call, now, node, logger, wifi, avg, mqtt, scd>>

NextBlocking ==
    \/ BlockingCall \/ BlockingPoll \/ BlockingSleep \/ BlockingCheck
    \/ BlockingRead

SpecBlocking == Init /\ [][NextBlocking]_vars /\ WF_vars(NextBlocking)

(***************************************************************************)
(* Properties.                                                             *)
(***************************************************************************)
\* a step that appended to the history (a bin was closed)
Closed == Len(hist_log') > Len(hist_log)

\* the last n elements of s
LastN(s, n) == SubSeq(s, Len(s) - n + 1, Len(s))

\* C1: after any sequence of add calls len(data) never exceeds data_max_size,
\* and data holds exactly the most recent min(len, data_max_size) entries ever
\* appended, oldest first.
C1_HistoryBounded ==
    /\ Len(data) <= data_max_size
    /\ data = LastN(hist_log, Min2(Len(hist_log), data_max_size))

\* more bins were closed than the history holds: entries were evicted
C1_Witness ==
    /\ Len(hist_log) > data_max_size
    /\ hist_log[1] # hist_log[Len(hist_log)]

\* C2 as stated: the entry pushed by a bin close is Candle(min, max, last_ts)
\* over exactly the samples whose timestamps fell inside the bin's window.
C2_Original ==
    [][(Closed /\ win_bin # <<>>) =>
          Last(hist_log') = Candle(Min(Range(win_bin)), Max(Range(win_bin)), last_ts)]_vars

\* C2 as amended: the entry pushed by a bin close is Candle(min, max, last_ts)
\* over the samples held by the open bin together with the sample of the add
\* call that closes it; ts is the start of the closed bin.
C2_CandleOfBinAndTrigger ==
    [][Closed =>
          LET samples == Range(last_bin) \cup {last_co2'}
          IN  /\ Last(hist_log') = Candle(Min(samples), Max(samples), last_ts)
              /\ Last(data') = Last(hist_log')]_vars

\* a bin that held 500 and 700 in this order was closed by a sample of 900, and
\* one that started after 0 was closed too
C2_Witness ==
    /\ Len(hist_log) >= 2
    /\ \E i \in 1..Len(hist_log) :
          hist_log[i].min = 500 /\ hist_log[i].max = 900 /\ hist_log[i].ts > 0
    /\ \E i \in 1..Len(hist_log) :
          hist_log[i].min = 700 /\ hist_log[i].max = 700

\* C3: a bin whose window received no sample is closed as exactly one Gap.
C3_GapForEmptyBucket ==
    [][(Closed /\ win_bin = <<>>) =>
          /\ Len(hist_log') = Len(hist_log) + 1
          /\ Last(hist_log') = Gap]_vars

\* C4 as stated: with timestamps that never decrease, the number of entries
\* appended to the history equals the number of bucket boundaries crossed.
C4_Original == Len(hist_log) = crossed

\* C4 as amended: with timestamps that never decrease, an add call appends one
\* entry if its ts exceeds last_ts by more than seconds_per_bin and none
\* otherwise, however many bucket durations have elapsed; the number of entries
\* appended never exceeds the number of bucket boundaries crossed.
C4_OnePerOutdatedCall ==
    /\ [](Len(hist_log) <= crossed)
    /\ [][Len(hist_log') - Len(hist_log) =
             IF (prev_ts' - last_ts) * seconds_per_bin[2] > seconds_per_bin[1]
             THEN 1 ELSE 0]_vars

\* two bins were closed and more boundaries were crossed than entries appended
C4_Witness == Len(hist_log) >= 2 /\ crossed > Len(hist_log)

\* C5: one add call with a scalar value appends at most one entry, also when
\* its ts is several bucket durations past the bin start.
C5_AtMostOnePerCall ==
    [][/\ Len(hist_log') <= Len(hist_log) + 1
       /\ Len(data') <= Len(data) + 1]_vars

\* the only bin closed so far was closed by a sample more than two bucket
\* durations after the bin start
C5_Witness ==
    /\ Len(hist_log) = 1
    /\ Len(data) = 1
    /\ (last_ts - data[1].ts) * seconds_per_bin[2] > 2 * seconds_per_bin[1]

\* the add calls of the end-to-end scenario
ScenarioCalls == <<<<500, 0>>, <<700, 0>>, <<900, 31>>>>

\* C6 as stated: with seconds_per_bin = 30, after add(500, 0), add(700, 0),
\* add(900, 31) the history is [Candle(500, 700, 0)] and the open bin [700, 900].
C6_Original ==
    calls = ScenarioCalls =>
        data = <<Candle(500, 700, 0)>> /\ last_bin = <<700, 900>>

\* C6 as amended: with seconds_per_bin = 30, after add(500, 0), add(700, 0),
\* add(900, 31) the history is [Candle(500, 900, 0)] and the open bin [900].
C6_Scenario ==
    calls = ScenarioCalls =>
        data = <<Candle(500, 900, 0)>> /\ last_bin = <<900>> /\ last_ts = 31

C6_Witness == calls = ScenarioCalls /\ seconds_per_bin = <<30, 1>>

\* the history holds no candle
NoCandle == \A i \in 1..Len(data) : data[i].gap

\* C7: _calculate_y_axis_limits returns (400, 1000) when the history holds no
\* candle, whatever the padding, and does not raise.
C7_FallbackRange ==
    NoCandle =>
        /\ raised = "none"
        /\ ylim.called => ylim.ret = <<400, 1000>>
        /\ Len(flushed) > 1 => y_axis = <<400, 1000>>

\* a history of gaps only, scaled with a padding of 2 steps below
C7_Witness ==
    /\ data # <<>>
    /\ NoCandle
    /\ ylim.called
    /\ ylim.extra_low = 2

\* the candles among the most recent graph_w entries of the history
RecentCandles ==
    {e \in Range(LastN(data, Min2(Len(data), graph_w))) : ~e.gap}

\* C8: when the history holds a candle, _calculate_y_axis_limits returns
\* (step * (floor(gmin / step) - extra_low), step * (ceil(gmax / step) + extra_high))
\* for gmin, gmax the extremes of the candles among the most recent graph_w
\* entries; [Candle(600, 1100, _)] with padding (1, 0) gives (400, 1200).
C8_RoundedLimits ==
    (ylim.called /\ ~NoCandle) =>
        LET gmin == Min({e.min : e \in RecentCandles})
            gmax == Max({e.max : e \in RecentCandles})
            step == y_axis_scale_step
            lo == CHOOSE k \in -10..10 : k * step <= gmin /\ gmin < (k + 1) * step
            hi == CHOOSE k \in -10..10 : (k - 1) * step < gmax /\ gmax <= k * step
        IN  /\ ylim.ret = <<step * (lo - ylim.extra_low), step * (hi + ylim.extra_high)>>
            /\ (data = <<Candle(600, 1100, 0)>> /\ ylim.extra_low = 1
                  /\ ylim.extra_high = 0) => ylim.ret = <<400, 1200>>

\* the example of the claim, and a history whose oldest entry alone sets gmin
C8_Witness ==
    /\ ylim.called
    /\ data = <<Candle(600, 1100, 0)>>
    /\ ylim.extra_low = 1
    /\ ylim.extra_high = 0

\* C9: the range _calculate_y_axis_limits returns has max >= min for every
\* history and non-negative padding, so the assertion of _update_display holds.
C9_RangeNotNegative ==
    /\ ylim.called => ylim.ret[2] >= ylim.ret[1]
    /\ y_axis[2] >= y_axis[1]
    /\ raised # "AssertionError"

\* a candle with min = max on a step, no padding: a range of height zero
C9_Witness ==
    /\ ylim.called
    /\ ~NoCandle
    /\ ylim.ret[1] = ylim.ret[2]

\* C10: every candle drawn is a vertical line at least 2 pixels high.
C10_MinBarHeight ==
    \A k \in 1..Len(vlines) : vlines[k].h >= 2

\* a redraw drew a candle with min = max, and one whose rows differ by one
C10_Witness ==
    /\ raised = "none"
    /\ \E k \in 1..Len(vlines) :
          LET e == NegIndex(data, full_w - vlines[k].x)
          IN  e.min = e.max /\ vlines[k].h = 2
    /\ \E k \in 1..Len(vlines) :
          LET e == NegIndex(data, full_w - vlines[k].x)
          IN  pixel_row(e.min, y_axis) - pixel_row(e.max, y_axis) = 1

\* the candles of the history, oldest first
Candles(d) == SelectSeq(d, LAMBDA e : ~e.gap)

\* C11: the display is flushed with a full repaint (display_Base) only
\* initially; every redraw of a later bucket close is flushed with a partial
\* refresh (display_Partial).
C11_PartialAfterFirst ==
    /\ flushed[1] = "Base"
    /\ \A k \in 2..Len(flushed) : flushed[k] = "Partial"

\* C12: in a redraw the candles are visited newest to oldest, every candle of
\* the history gets its own on-screen column g_left <= x < full_w, and newer
\* candles are strictly to the right of older ones (the oldest is leftmost).
C12_OwnColumnNewestRightmost ==
    (raised = "none" /\ Len(flushed) > 1) =>
        LET cs == Candles(data)
            n == Len(cs)
        IN  /\ Len(vlines) = n
            /\ \A k \in 1..Len(vlines) :
                  /\ g_left <= vlines[k].x
                  /\ vlines[k].x < full_w
                  /\ k > 1 => vlines[k].x < vlines[k - 1].x
                  /\ k <= n => vlines[k].y = pixel_row(cs[n - k + 1].max, y_axis)

\* C13: add with a list of values stamps every element with one and the same
\* timestamp, whether ts is given or left to default to the current time, and
\* so one list call closes at most one bin.
C13_OneTimestampOneClose ==
    /\ Cardinality(list_call.stamps) <= 1
    /\ list_call.closes <= 1

C15_FatalAtFirstUse ==
    mode # "candle" =>
        /\ Len(calls) = 1 => raised = "ValueError"
        /\ data = <<>> /\ hist_log = <<>>
        /\ Len(flushed) = 1 /\ vlines = <<>>

C17_EmitsIffThreshold ==
    (logger.set /\ logger.fn \in LogFunctions) =>
        (logger.emitted <=> threshold[logger.fn] <= logger.requested)

\* C18: connect returns normally only if the interface status is STAT_GOT_IP
\* when it returns, in every call, and the polling loop runs at most max_wait
\* passes.
C18_ReturnsOnlyWithIp ==
    [][/\ (wifi'.result = "returned" /\ wifi.result # "returned") =>
              wifi'.status = STAT_GOT_IP
       /\ wifi'.i <= wifi'.max_wait]_vars

\* C19: fn_avg calls fn exactly n_avg times and returns the sum of the
\* results divided by n_avg.
C19_AverageOfNCalls ==
    avg.called =>
        /\ avg.calls = avg.n_avg
        /\ avg.ret[1] * avg.n_avg
              = Sum(SubSeq(avg.stream, 1, avg.n_avg)) * avg.ret[2]

\* C20 as stated: the redraw of a closing add runs before the value is
\* recorded as the last value, so its text shows the value recorded before.
C20_Original ==
    [][Closed => co2_txt' = last_co2]_vars

\* C20: in a closing add the entry is pushed, the open bin reset, last_ts set,
\* the value appended to the new open bin and recorded as last_co2, and only
\* then the redraw runs: it draws the history with the new entry and the text
\* of the value just added.
C20_RedrawAfterRecord ==
    [][Closed =>
          /\ Last(data') = Last(hist_log')
          /\ last_bin' = <<last_co2'>>
          /\ \E t \in TsChoices : last_ts' = t /\ outdated(t)
          /\ y_axis' = calculate_y_axis_limits(data', plot_extra_v_range[1],
                                               plot_extra_v_range[2])
          /\ vlines' = candle_lines(data', 0, y_axis')
          /\ co2_txt' = last_co2'
          /\ flushed' # flushed]_vars

\* a bin holding 500 was closed by an add of 900: the redraw wrote 900
C20_Witness ==
    /\ hist_log = <<Candle(500, 900, 0)>>
    /\ last_bin = <<900>>
    /\ co2_txt = 900

\* the order of the parts of a render pass
phase_rank == [clear |-> 0, text |-> 1, candle |-> 2, x_label |-> 3,
               x_tick |-> 4, y_label |-> 5, y_tick |-> 6, flush |-> 7]

\* the calls of kind k among the calls of the last render pass
CallsOf(k) == {i \in 1..Len(cmds) : cmds[i] = k}

\* C21: every render pass issues its draw calls in the fixed order clear, text
\* blocks, candle bars, x-axis labels and ticks, y-axis labels and ticks, and
\* finally exactly one flush; no draw call follows the flush.
C21_DrawOrder ==
    cmds # <<>> =>
        /\ cmds[1] = "clear" /\ Cardinality(CallsOf("clear")) = 1
        /\ cmds[Len(cmds)] = "flush" /\ Cardinality(CallsOf("flush")) = 1
        /\ \A i \in 1..(Len(cmds) - 1) :
              phase_rank[cmds[i]] <= phase_rank[cmds[i + 1]]
        /\ \A k \in {"text", "x_label", "x_tick", "y_label", "y_tick"} :
              CallsOf(k) # {}
        /\ Cardinality(CallsOf("candle")) = Len(vlines)

\* a render pass that drew two candles
C21_Witness ==
    /\ Len(flushed) = 2
    /\ Len(vlines) = 2
    /\ Cardinality(CallsOf("candle")) = 2

\* C22: an add(value, ts) with ts - last_ts <= seconds_per_bin (the boundary
\* and any ts before last_ts included) leaves history and last_ts unchanged
\* and triggers no redraw or flush, it only appends value to the open bin and
\* sets last_co2; every other add closes one bin and redraws exactly once.
C22_QuietUnlessOutdated ==
    [][LET c == Last(calls')
       IN  IF (c[2] - last_ts) * seconds_per_bin[2] <= seconds_per_bin[1]
           THEN /\ data' = data /\ hist_log' = hist_log /\ last_ts' = last_ts
                /\ flushed' = flushed /\ cmds' = cmds /\ vlines' = vlines
                /\ y_axis' = y_axis /\ co2_txt' = co2_txt
                /\ last_bin' = Append(last_bin, c[1])
                /\ last_co2' = c[1]
           ELSE /\ Len(hist_log') = Len(hist_log) + 1
                /\ Len(flushed') = Len(flushed) + 1]_vars

\* after a bin close at ts 31, an add with the earlier ts 30
C22_Witness ==
    /\ Len(calls) = 2
    /\ calls[1][2] = 31 /\ calls[2][2] = 30
    /\ Len(hist_log) = 1 /\ Len(flushed) = 2
    /\ last_ts = 31
    /\ Len(last_bin) = 2

\* C23: after any sequence of add calls the history holds no Gap: the open
\* bin is never empty when it is closed.
C23_NoGapInHistory ==
    /\ \A i \in 1..Len(hist_log) : ~hist_log[i].gap
    /\ \A i \in 1..Len(data) : ~data[i].gap

\* a bin closed by an add more than two bin widths after its start
C23_Witness ==
    /\ Len(hist_log) = 2
    /\ hist_log[2].ts - hist_log[1].ts > 2 * BinSeconds
    /\ last_ts - hist_log[2].ts > 2 * BinSeconds

\* the timestamps a and b, a before b, are more than seconds_per_bin apart
Apart(a, b) == (b - a) * seconds_per_bin[2] > seconds_per_bin[1]

\* C24: with timestamps in any order last_ts never decreases and each bin
\* close raises it by more than seconds_per_bin; the timestamps of the
\* candles in history are strictly increasing, consecutive ones more than
\* seconds_per_bin apart.
C24_TimestampsIncrease ==
    /\ [][/\ last_ts' >= last_ts
          /\ Closed => Apart(last_ts, last_ts')]_vars
    /\ [](/\ \A i \in 1..(Len(data) - 1) : Apart(data[i].ts, data[i + 1].ts)
          /\ data # <<>> => Apart(Last(data).ts, last_ts))

\* three bins closed, an add with a ts before last_ts in between
C24_Witness ==
    /\ Len(hist_log) = 3
    /\ Len(data) = data_max_size
    /\ Len(last_bin) = 2
    /\ data[1].ts < data[2].ts

\* C25: no redraw divides by zero: y_axis_range is at least one
\* y_axis_scale_step whenever _update_display runs, also when every candle
\* has min = max, so the render pass never raises in candle mode.
C25_RangePositive ==
    /\ raised \notin {"ZeroDivisionError", "AssertionError"}
    /\ Len(flushed) > 1 => y_axis[2] - y_axis[1] >= y_axis_scale_step

\* a redraw of one candle with min = max on a multiple of the scale step
C25_Witness ==
    /\ data = <<Candle(600, 600, 0)>>
    /\ Len(flushed) = 2
    /\ y_axis = <<400, 600>>
    /\ Len(vlines) = 1

\* C26: on a fresh Display the first add(v, ts) with ts > seconds_per_bin
\* closes a bin made of that sample only: history is [Candle(v, v, 0)],
\* last_ts is ts, the open bin is [v] and one redraw ran; with
\* ts <= seconds_per_bin nothing is appended to history.
C26_FirstAdd ==
    Len(calls) = 1 =>
        LET v == calls[1][1]
            ts == calls[1][2]
        IN  IF ts * seconds_per_bin[2] > seconds_per_bin[1]
            THEN /\ data = <<Candle(v, v, 0)>>
                 /\ last_ts = ts
                 /\ last_bin = <<v>>
                 /\ Len(flushed) = 2
            ELSE /\ data = <<>> /\ hist_log = <<>>
                 /\ last_ts = 0
                 /\ Len(flushed) = 1

\* the first add is add(700, 31)
C26_Witness ==
    /\ calls = <<<<700, 31>>>>
    /\ data = <<Candle(700, 700, 0)>>
    /\ cmds # <<>>

\* C27: with keepalive=False a send that returns made exactly the calls
\* connect, publish, publish status, disconnect; the client is disconnected
\* before and after every send and publishes only while connected.
C27_ConnectPublishDisconnect ==
    (mqtt.made /\ ~mqtt.keepalive) =>
        /\ mqtt.result = "returned" =>
              /\ mqtt.ops = <<"connect", "publish", "publish_status", "disconnect">>
              /\ ~mqtt.connected
        /\ mqtt.pc \in {"publish", "status"} => mqtt.connected
        /\ mqtt.pc # "idle" => ~mqtt.before

\* C28: with keepalive=True the constructor connects; each send pings first
\* and reconnects iff the ping raises OSError, then publishes the message and
\* the status; send never disconnects, and every publish follows a successful
\* ping or connect of the same send.
C28_PingOrReconnect ==
    (mqtt.made /\ mqtt.keepalive) =>
        /\ mqtt.connected
        /\ mqtt.pc # "disconnect"
        /\ \A i \in 1..Len(mqtt.ops) :
              /\ mqtt.ops[i] \notin {"disconnect", "disconnect_OSError"}
              /\ mqtt.ops[i] \in {"connect", "connect_OSError"} =>
                    i = 2 /\ mqtt.ops[1] = "ping_OSError"
              /\ mqtt.ops[i] \in {"publish", "publish_status"} =>
                    \E j \in 1..(i - 1) : mqtt.ops[j] \in {"ping", "connect"}
        /\ mqtt.pc \in {"publish", "status"} =>
              \E j \in 1..Len(mqtt.ops) : mqtt.ops[j] \in {"ping", "connect"}
        /\ (mqtt.ops # <<>> /\ mqtt.ops[1] = "ping_OSError") =>
              mqtt.pc = "connect" \/ Len(mqtt.ops) >= 2
        /\ mqtt.result = "returned" =>
              mqtt.ops \in {<<"ping", "publish", "publish_status">>,
                            <<"ping_OSError", "connect", "publish",
                              "publish_status">>}

\* a send whose ping failed and whose reconnect succeeded
C28_Witness ==
    /\ mqtt.made /\ mqtt.keepalive
    /\ mqtt.result = "returned"
    /\ mqtt.ops = <<"ping_OSError", "connect", "publish", "publish_status">>

\* C29: with keepalive=False a send that fails publishes nothing for a
\* rejected message type and leaves the client disconnected: after every
\* send, returned or raised, connects and disconnects are balanced.
C29_FailedSendDisconnected ==
    (mqtt.made /\ ~mqtt.keepalive /\ mqtt.pc = "idle" /\ mqtt.result # "none") =>
        /\ ~mqtt.connected
        /\ mqtt.msg = "other" =>
              \A i \in 1..Len(mqtt.ops) :
                  mqtt.ops[i] \notin {"publish", "publish_status"}

\* every word of the response carries the CRC-8 of its two bytes
Verified(raw) == \A i \in 1..Len(raw) : raw[i].crc = crc8(word_of(raw[i]))

\* C30: _send_command with n > 0 response words returns exactly the n words,
\* each with its received CRC equal to the CRC-8 computed over it, or an
\* empty list: one CRC mismatch discards all words; get_data then returns the
\* default readings and does not raise.
C30_AllWordsOrNone ==
    /\ crc8(48879) = 146
    /\ scd.op # "none" =>
          /\ \/ scd.ret = <<>>
             \/ /\ Len(scd.ret) = Len(scd.raw)
                /\ \A i \in 1..Len(scd.raw) :
                      /\ scd.ret[i] = word_of(scd.raw[i])
                      /\ scd.raw[i].crc = crc8(scd.ret[i])
          /\ Verified(scd.raw) <=> scd.ret # <<>>
          /\ scd.raised = "none"
          /\ scd.op = "get_data" => (scd.data.defaults <=> ~Verified(scd.raw))

\* get_data on a response whose last word alone fails its CRC
C30_Witness ==
    /\ scd.op = "get_data"
    /\ Verified(SubSeq(scd.raw, 1, READ_MEASUREMENT_WORDS - 1))
    /\ ~Verified(scd.raw)
    /\ scd.ret = <<>>
    /\ scd.data = default_readings

\* the get_data_blocking call has returned
Returned == blocking.pc = "done"

\* what the two return statements have in common with the claim: the loop is
\* left for line 152 exactly when a poll found the data ready, line 150
\* returns the defaults only after a poll that found none, with max_wait > 0
\* and more than max_wait seconds gone, and never with max_wait = 0
ReturnPaths ==
    /\ blocking.ready <=> blocking.pc = "read" \/ (Returned /\ blocking.by = "get_data")
    /\ Returned /\ blocking.by = "timeout" =>
          /\ ~blocking.ready
          /\ blocking.max_wait > 0
          /\ blocking.diff > 100 * blocking.max_wait
          /\ blocking.ret = default_readings
    /\ Returned /\ blocking.max_wait = 0 => blocking.by = "get_data"
    /\ blocking.pc = "check" /\ blocking.max_wait > 0 =>
          blocking.diff - (SLEEP_MS + 100) <= 100 * blocking.max_wait

\* the return paths, and line 152 returning what get_data gives for the
\* answer of the bus: the defaults iff a word fails its CRC, else the words
ReturnsOfBlocking ==
    /\ ReturnPaths
    /\ Returned /\ blocking.by = "get_data" =>
          /\ blocking.ret.defaults <=> ~Verified(blocking.raw)
          /\ ~blocking.ret.defaults =>
                \A i \in 1..3 :
                   blocking.ret.bits[i] =
                      <<word_of(blocking.raw[2 * i - 1]),
                        word_of(blocking.raw[2 * i])>>

\* C31 as stated: get_data_blocking returns a measurement as soon as
\* is_data_ready is true, the default readings only once more than max_wait
\* seconds have passed without data, and with max_wait = 0 only once the data
\* is ready, never by the timeout (its termination for max_wait > 0 is part of
\* C31_BlockingReturns)
C31_ReadyGivesMeasurement ==
    /\ ReturnPaths
    /\ Returned /\ blocking.by = "get_data" => ~blocking.ret.defaults

\* C31: get_data_blocking(max_wait) with max_wait > 0 always returns; it
\* returns what get_data gives as soon as is_data_ready is true (a measurement,
\* or the default readings when a word of the measurement fails its CRC), and
\* the default readings once more than max_wait seconds have passed without
\* data; with max_wait = 0 it never returns by the timeout and returns only once
\* the data is ready
C31_BlockingReturns ==
    /\ []ReturnsOfBlocking
    /\ (blocking.pc # "idle" /\ blocking.max_wait > 0 ~> Returned)

\* with max_wait = 0 the data became ready after a wait and the read of the
\* measurement failed its CRC: the call returned the default readings
C31_Witness ==
    /\ Returned
    /\ blocking.by = "get_data"
    /\ blocking.max_wait = 0
    /\ blocking.diff > 0
    /\ blocking.ret.defaults

====
